------------------------------ MODULE Spec2Model ------------------------------
(***************************************************************************)
(* Model of iam_policy_reporter.py: one pass over the exported IAM policy  *)
(* documents, a memoizing folder-name resolver, and the CSV writer.        *)
(*                                                                         *)
(* Text is a sequence of atoms.  An atom is a run of characters that the   *)
(* program never looks inside ("folders", "p1", "Team A"); the characters  *)
(* the program does look for ("/", ":", tab, newline, blank) are atoms of  *)
(* their own, so split, strip, "in" and the two regular expressions are    *)
(* computed as Python computes them.                                       *)
(***************************************************************************)
EXTENDS Integers, Sequences, FiniteSets, TLC

\* ------------------------------------------------------------------ bounds
MaxDocs == 2

\* ------------------------------------------------------- text primitives
TAB == "\t"
NL == "\n"
Whitespace == {" ", TAB, NL}

Last(s) == s[Len(s)]

RECURSIVE LStrip(_)
LStrip(s) ==
    IF s # <<>> /\ Head(s) \in Whitespace THEN LStrip(Tail(s)) ELSE s

RECURSIVE RStrip(_)
RStrip(s) ==
    IF s # <<>> /\ Last(s) \in Whitespace
    THEN RStrip(SubSeq(s, 1, Len(s) - 1))
    ELSE s

\* str.strip()
Strip(s) == RStrip(LStrip(s))

\* str.split(sep): always at least one field, empty fields kept
RECURSIVE Split(_, _)
Split(s, sep) ==
    IF \A i \in 1..Len(s) : s[i] # sep
    THEN <<s>>
    ELSE LET k == CHOOSE i \in 1..Len(s) :
                      s[i] = sep /\ \A j \in 1..(i - 1) : s[j] # sep
         IN  <<SubSeq(s, 1, k - 1)>> \o Split(SubSeq(s, k + 1, Len(s)), sep)

\* `sub in s`
Contains(s, sub) ==
    \E i \in 1..(Len(s) - Len(sub) + 1) : SubSeq(s, i, i + Len(sub) - 1) = sub

\* dict.get(key, default)
Get(d, key, default) == IF key \in DOMAIN d THEN d[key] ELSE default


\* ------------------------------------------------------- program constants
PROJECT == <<"Project">>
FOLDER == <<"Folder">>
NOT_FOUND == <<"<not found>">>
PROJECT_DETAILS_NOT_FOUND == <<"<project details not found>">>
\* Variant: the folder path reusing the project path's failure text.
PARENT_LOOKUP_FAILED_AsProject == PROJECT_DETAILS_NOT_FOUND
PARENT_LOOKUP_FAILED == <<"<Parent lookup failed>">>
ORGANIZATION == <<"<Organization>">>
EMPTY == <<>>
DEFAULT_ORGANIZATION == <<"organizations", "/", "UNKNOWN">>
FOLDERS_PREFIX == <<"folders", "/">>
CSV_HEADER ==
    << <<"OrganizationID">>, <<"ResourceType">>, <<"ResourceID">>,
       <<"ResourceName">>, <<"Parent">>, <<"Role">>, <<"Member">> >>

\* The host part of both patterns; its dots are unescaped in the patterns, so a
\* spelling with other characters in their place matches as well.
ApiHost == "cloudresourcemanager.googleapis.com"
HostSpellings == {ApiHost, "cloudresourcemanager-googleapis-com"}

\* Variant of the patterns without the `[^/]+$` tail: a prefix match.
MatchesKind_Unanchored(resource, kind) ==
    /\ Len(resource) >= 7
    /\ resource[1] = "/" /\ resource[2] = "/"
    /\ resource[3] \in HostSpellings
    /\ resource[4] = "/" /\ resource[5] = kind /\ resource[6] = "/"

\* re.match(r'^//cloudresourcemanager.googleapis.com/<kind>/[^/]+$', resource)
MatchesKind(resource, kind) ==
    /\ Len(resource) >= 7
    /\ resource[1] = "/" /\ resource[2] = "/"
    /\ resource[3] \in HostSpellings
    /\ resource[4] = "/" /\ resource[5] = kind /\ resource[6] = "/"
    /\ \A i \in 7..Len(resource) : resource[i] # "/"

IsProject(resource) == MatchesKind(resource, "projects")
IsFolder(resource) == MatchesKind(resource, "folders")

\* resource.split('/')[-1]
ResourceId(resource) == Last(Split(resource, "/"))

\* Variant of the colon test that looks at the start of the id only.
IsSystemProject_StartsWith(resource_id) ==
    resource_id # <<>> /\ Head(resource_id) = ":"

\* ':' in resource_id
IsSystemProject(resource_id) == Contains(resource_id, <<":">>)

\* policy_doc.get('organization', 'organizations/UNKNOWN').split('/')[1]
OrganizationId(policy_doc) ==
    Split(Get(policy_doc, "organization", DEFAULT_ORGANIZATION), "/")[2]

\* policy_doc.get('policy', {}).get('bindings', [])
Bindings(policy_doc) == Get(Get(policy_doc, "policy", <<>>), "bindings", <<>>)

\* ------------------------------------------------------------- the inputs
ResourceOf(host, kind, id) == <<"/", "/", host, "/", kind, "/">> \o id

ReportedResources ==
    { ResourceOf(ApiHost, "projects", <<"p1">>),
      ResourceOf(ApiHost, "folders", <<"f1">>),
      ResourceOf(ApiHost, "folders", <<"f2">>) }
\* A system project, another kind, extra path segments
SkippedResources ==
    { ResourceOf(ApiHost, "projects", <<"sys", ":", "p2">>),
      ResourceOf(ApiHost, "organizations", <<"o1">>),
      ResourceOf(ApiHost, "projects", <<"p1", "/", "zones", "/", "z1">>) }

UserA == <<"user", ":", "a@x.com">>
UserB == <<"user", ":", "b@x.com">>

\* What a document carries besides its resource: organization and policy.
WithBindings ==
    { [organization |-> <<"organizations", "/", "o1">>,
       policy |-> [bindings |->
           << [role |-> <<"roles", "/", "viewer">>, members |-> <<UserA, UserB>>],
              [role |-> <<"roles", "/", "owner">>, members |-> <<>>] >>]],
      [policy |-> [bindings |-> << [members |-> <<UserA, UserA>>] >>]] }
WithoutBindings ==
    { [organization |-> <<"organizations", "/", "o1">>,
       policy |-> [bindings |-> <<>>]] }
Payloads == WithBindings \cup WithoutBindings

\* The documents of the input domain.  A document that is passed over is
\* given bindings, which the report must then not show.
PolicyDocs ==
    { [resource |-> r] @@ p : r \in ReportedResources, p \in Payloads }
    \cup { [resource |-> r] @@ p : r \in SkippedResources, p \in WithBindings }

RECURSIVE SeqsUpTo(_, _)
SeqsUpTo(S, n) ==
    IF n = 0 THEN {<<>>}
    ELSE LET shorter == SeqsUpTo(S, n - 1)
         IN  shorter \cup { Append(s, x) : s \in shorter, x \in S }

InputFiles == {"missing", "corrupt", "json"}
\* OUTPUT_CSV as the run finds it, absent or holding an earlier report (the
\* program never reads it), and OUTPUT_CSV once the run has opened it.
AsFound == [opened |-> FALSE, lines |-> <<>>]
Opened(lines) == [opened |-> TRUE, lines |-> lines]

\* ------------------------------------------------ the external lookups
\* subprocess.run(..., check=True): exit status and captured stdout.
Completed(text) == [returncode |-> 0, stdout |-> text]
Failed == [returncode |-> 1, stdout |-> <<>>]

\* gcloud --format=value(a, b, c): the values on one line, tab separated.
ValueLine(fields) ==
    LET RECURSIVE Join(_)
        Join(fs) == IF Len(fs) = 1 THEN fs[1]
                    ELSE fs[1] \o <<TAB>> \o Join(Tail(fs))
    IN  Join(fields) \o <<NL>>

ProjectName == <<"My Project">>
ProjectAnswers ==
    { <<ProjectName, <<"folder">>, <<"f1">>>>,
      <<ProjectName, <<"organization">>, <<"o1">>>>,
      <<EMPTY, <<"folder">>, <<"f1">>>> }
MalformedProjectOutput == { ValueLine(<<ProjectName, <<"folder">>>>) }
ProjectOutcomes ==
    {Failed} \cup { Completed(ValueLine(a)) : a \in ProjectAnswers }
             \cup { Completed(t) : t \in MalformedProjectOutput }

FolderNameOutcomes == {Failed, Completed(ValueLine(<< <<"Team A">> >>))}

FolderParentOutcomes ==
    {Failed, Completed(ValueLine(<< FOLDERS_PREFIX \o <<"f1">> >>)),
             Completed(ValueLine(<< <<"organizations", "/", "o1">> >>))}

\* ------------------------------------------------------------------ state
VARIABLES
    input_file,     \* INPUT_JSON on disk: "missing", "corrupt" or "json"
    input_docs,     \* the documents in INPUT_JSON when it is valid JSON
    output_file,    \* OUTPUT_CSV on disk: as found, or opened with its lines
    pc,             \* position of main(): check, load, loop, write, writing, exit
    exit_status,    \* "running", "0" or "1"
    all_policies,   \* the parsed input
    idx,            \* index of the next policy_doc of the for loop
    final_rows,     \* the accumulated report rows
    folder_cache,   \* folder id string -> display name or "<not found>"
    calls,          \* history: every gcloud invocation, with its document and result
    row_doc         \* history: for each row, the index of its document

vars == <<input_file, input_docs, output_file, pc, exit_status, all_policies, idx,
          final_rows, folder_cache, calls, row_doc>>

Init ==
    /\ input_file \in InputFiles
    /\ input_docs \in (IF input_file = "json" THEN SeqsUpTo(PolicyDocs, MaxDocs)
                                              ELSE {<<>>})
    /\ output_file = AsFound
    /\ pc = "check"
    /\ exit_status = "running"
    /\ all_policies = <<>>
    /\ idx = 1
    /\ final_rows = <<>>
    /\ folder_cache = <<>>
    /\ calls = <<>>
    /\ row_doc = <<>>

\* ------------------------------------------------------- get_folder_name
DescribeFolderName(folder_id, outcome) ==
    [op |-> "folders.describe.displayName", arg |-> folder_id, result |-> outcome]
DescribeFolderParent(folder_id, outcome) ==
    [op |-> "folders.describe.parent", arg |-> folder_id, result |-> outcome]
DescribeProject(project_id, outcome) ==
    [op |-> "projects.describe", arg |-> project_id, result |-> outcome]

\* Variant of get_folder_name that stores successes only (the except branch
\* returns the sentinel without caching it).
GetFolderName_NoNegativeCache(cache, folder_id_str, outcome) ==
    IF folder_id_str \in DOMAIN cache
    THEN [name |-> cache[folder_id_str], cache |-> cache, issued |-> <<>>]
    ELSE LET parts == Split(folder_id_str, "/")
         IN  IF Len(parts) < 2
             THEN [name |-> NOT_FOUND, cache |-> cache, issued |-> <<>>]
             ELSE LET call == DescribeFolderName(parts[2], outcome)
                  IN  IF outcome.returncode = 0
                      THEN [name |-> Strip(outcome.stdout),
                            cache |-> (folder_id_str :> Strip(outcome.stdout)) @@ cache,
                            issued |-> <<call>>]
                      ELSE [name |-> NOT_FOUND, cache |-> cache, issued |-> <<call>>]

\* Variant of get_folder_name that treats a cached "<not found>" as a miss and
\* overwrites it with the result of a new lookup.
GetFolderName_RetryNotFound(cache, folder_id_str, outcome) ==
    IF folder_id_str \in DOMAIN cache /\ cache[folder_id_str] # NOT_FOUND
    THEN [name |-> cache[folder_id_str], cache |-> cache, issued |-> <<>>]
    ELSE LET parts == Split(folder_id_str, "/")
             call == DescribeFolderName(parts[2], outcome)
             name == IF outcome.returncode = 0 THEN Strip(outcome.stdout)
                                               ELSE NOT_FOUND
         IN  [name |-> name,
              cache |-> [k \in DOMAIN cache \cup {folder_id_str} |->
                            IF k = folder_id_str THEN name ELSE cache[k]],
              issued |-> <<call>>]

\* get_folder_name(folder_id_str) on cache `cache`, the lookup (if one is issued)
\* ending as `outcome`: the returned name, the cache afterwards, the calls issued.
GetFolderName(cache, folder_id_str, outcome) ==
    IF folder_id_str \in DOMAIN cache
    THEN [name |-> cache[folder_id_str], cache |-> cache, issued |-> <<>>]
    ELSE LET parts == Split(folder_id_str, "/")
         IN  IF Len(parts) < 2
             THEN \* IndexError, before any call
                  [name |-> NOT_FOUND,
                   cache |-> (folder_id_str :> NOT_FOUND) @@ cache,
                   issued |-> <<>>]
             ELSE LET call == DescribeFolderName(parts[2], outcome)
                      name == IF outcome.returncode = 0
                              THEN Strip(outcome.stdout)
                              ELSE NOT_FOUND
                  IN  [name |-> name,
                       cache |-> (folder_id_str :> name) @@ cache,
                       issued |-> <<call>>]

\* ------------------------------------------------------ binding flattener
\* Variant of the member loop that emits each distinct member once.
RECURSIVE MemberRows_Distinct(_, _, _)
MemberRows_Distinct(prefix, role, members) ==
    IF members = <<>> THEN <<>>
    ELSE LET rest == MemberRows_Distinct(prefix, role, Tail(members))
         IN  IF \E i \in 2..Len(members) : members[i] = Head(members)
             THEN rest
             ELSE <<prefix \o <<role, Head(members)>>>> \o rest

RECURSIVE MemberRows(_, _, _)
MemberRows(prefix, role, members) ==
    IF members = <<>> THEN <<>>
    ELSE <<prefix \o <<role, Head(members)>>>>
         \o MemberRows(prefix, role, Tail(members))

RECURSIVE BindingRows(_, _)
BindingRows(prefix, bindings) ==
    IF bindings = <<>> THEN <<>>
    ELSE LET binding == Head(bindings)
         IN  MemberRows(prefix, Get(binding, "role", EMPTY),
                        Get(binding, "members", <<>>))
             \o BindingRows(prefix, Tail(bindings))

\* Variant of the flattener that drops the rows of a project whose details
\* could not be found.
DocRows_DropUnresolved(policy_doc, resource_type, resource_id, resource_name, parent_name) ==
    IF resource_name = PROJECT_DETAILS_NOT_FOUND THEN <<>>
    ELSE BindingRows(<<OrganizationId(policy_doc), resource_type, resource_id,
                       resource_name, parent_name>>,
                     Bindings(policy_doc))

\* Lines 139-148: the rows one resolved document appends.
DocRows(policy_doc, resource_type, resource_id, resource_name, parent_name) ==
    BindingRows(<<OrganizationId(policy_doc), resource_type, resource_id,
                  resource_name, parent_name>>,
                Bindings(policy_doc))

Tagged(issued, doc) ==
    [i \in 1..Len(issued) |-> [doc |-> doc] @@ issued[i]]

Accumulate(rows) ==
    /\ final_rows' = final_rows \o rows
    /\ row_doc' = row_doc \o [i \in 1..Len(rows) |-> idx]

\* ----------------------------------------------------------------- main()
Exit(code) == pc' = "exit" /\ exit_status' = code

\* Lines 62-65
InputMissing ==
    /\ pc = "check" /\ input_file = "missing"
    /\ Exit("1")
    /\ UNCHANGED <<input_file, input_docs, output_file, all_policies, idx,
                   final_rows, folder_cache, calls, row_doc>>

InputExists ==
    /\ pc = "check" /\ input_file # "missing"
    /\ pc' = "load"
    /\ UNCHANGED <<input_file, input_docs, output_file, exit_status, all_policies,
                   idx, final_rows, folder_cache, calls, row_doc>>

\* Lines 70-76
InputCorrupt ==
    /\ pc = "load" /\ input_file = "corrupt"
    /\ Exit("1")
    /\ UNCHANGED <<input_file, input_docs, output_file, all_policies, idx,
                   final_rows, folder_cache, calls, row_doc>>

InputLoaded ==
    /\ pc = "load" /\ input_file = "json"
    /\ all_policies' = input_docs
    /\ pc' = "loop"
    /\ UNCHANGED <<input_file, input_docs, output_file, exit_status, idx,
                   final_rows, folder_cache, calls, row_doc>>

InLoop == pc = "loop" /\ idx <= Len(all_policies)
NextDoc == idx' = idx + 1 /\ UNCHANGED <<pc, exit_status>>
Files == <<input_file, input_docs, output_file, all_policies>>

\* Lines 135-137: neither pattern matches
SkipOtherResource ==
    /\ InLoop
    /\ LET resource == Get(all_policies[idx], "resource", EMPTY)
       IN  ~IsProject(resource) /\ ~IsFolder(resource)
    /\ NextDoc
    /\ UNCHANGED <<Files, final_rows, folder_cache, calls, row_doc>>

\* Line 91: a project id with a colon
SkipSystemProject ==
    /\ InLoop
    /\ LET resource == Get(all_policies[idx], "resource", EMPTY)
       IN  IsProject(resource) /\ IsSystemProject(ResourceId(resource))
    /\ NextDoc
    /\ UNCHANGED <<Files, final_rows, folder_cache, calls, row_doc>>

\* Variant of the project path that repeats a failed describe call once.
ResolveProject_RetryOnFailure(cache, resource_id, outcome, folder_outcome) ==
    LET call == DescribeProject(resource_id, outcome)
        failed == [resource_name |-> PROJECT_DETAILS_NOT_FOUND, parent_name |-> EMPTY,
                   cache |-> cache, issued |-> <<call, call>>]
    IN  IF outcome.returncode # 0
        THEN failed
        ELSE LET fields == Split(Strip(outcome.stdout), TAB)
             IN  IF Len(fields) # 3
                 THEN [failed EXCEPT !.issued = <<call>>]
                 ELSE IF fields[2] = <<"folder">>
                      THEN LET parent == GetFolderName(cache, FOLDERS_PREFIX \o fields[3],
                                                       folder_outcome)
                           IN  [resource_name |-> fields[1],
                                parent_name |-> parent.name,
                                cache |-> parent.cache,
                                issued |-> <<call>> \o parent.issued]
                      ELSE [resource_name |-> fields[1],
                            parent_name |-> ORGANIZATION,
                            cache |-> cache, issued |-> <<call>>]

\* Lines 95-112: name and parent of project `resource_id`; `outcome` is how the
\* describe call ends, `folder_outcome` how the parent folder's lookup ends if
\* one is issued.
ResolveProject(cache, resource_id, outcome, folder_outcome) ==
    LET call == DescribeProject(resource_id, outcome)
        failed == [resource_name |-> PROJECT_DETAILS_NOT_FOUND, parent_name |-> EMPTY,
                   cache |-> cache, issued |-> <<call>>]
    IN  IF outcome.returncode # 0
        THEN failed                                   \* CalledProcessError
        ELSE LET fields == Split(Strip(outcome.stdout), TAB)
             IN  IF Len(fields) # 3
                 THEN failed                          \* ValueError of the unpacking
                 ELSE IF fields[2] = <<"folder">>
                      THEN LET parent == GetFolderName(cache, FOLDERS_PREFIX \o fields[3],
                                                       folder_outcome)
                           IN  [resource_name |-> fields[1],
                                parent_name |-> parent.name,
                                cache |-> parent.cache,
                                issued |-> <<call>> \o parent.issued]
                      ELSE [resource_name |-> fields[1],
                            parent_name |-> ORGANIZATION,
                            cache |-> cache, issued |-> <<call>>]

\* Lines 117-134: name and parent of folder `resource_id`.
ResolveFolder(cache, resource_id, name_outcome, parent_outcome, parent_name_outcome) ==
    LET own == GetFolderName(cache, FOLDERS_PREFIX \o resource_id, name_outcome)
        call == DescribeFolderParent(resource_id, parent_outcome)
    IN  IF parent_outcome.returncode # 0
        THEN [resource_name |-> own.name, parent_name |-> PARENT_LOOKUP_FAILED,
              cache |-> own.cache, issued |-> own.issued \o <<call>>]
        ELSE LET parent_path == Strip(parent_outcome.stdout)
             IN  IF Contains(parent_path, FOLDERS_PREFIX)
                 THEN LET parent == GetFolderName(own.cache, parent_path,
                                                  parent_name_outcome)
                      IN  [resource_name |-> own.name, parent_name |-> parent.name,
                           cache |-> parent.cache,
                           issued |-> own.issued \o <<call>> \o parent.issued]
                 ELSE [resource_name |-> own.name, parent_name |-> ORGANIZATION,
                       cache |-> own.cache, issued |-> own.issued \o <<call>>]

\* Lines 88-112 and 139-148
ProcessProject ==
    /\ InLoop
    /\ LET policy_doc == all_policies[idx]
           resource == Get(policy_doc, "resource", EMPTY)
           resource_id == ResourceId(resource)
       IN  /\ IsProject(resource)
           /\ ~IsSystemProject(resource_id)
           /\ \E outcome \in ProjectOutcomes, folder_outcome \in FolderNameOutcomes :
                LET r == ResolveProject(folder_cache, resource_id, outcome,
                                        folder_outcome)
                IN  /\ folder_cache' = r.cache
                    /\ calls' = calls \o Tagged(r.issued, idx)
                    /\ Accumulate(DocRows(policy_doc, PROJECT, resource_id,
                                          r.resource_name, r.parent_name))
    /\ NextDoc
    /\ UNCHANGED Files

\* Lines 113-134 and 139-148
ProcessFolder ==
    /\ InLoop
    /\ LET policy_doc == all_policies[idx]
           resource == Get(policy_doc, "resource", EMPTY)
           resource_id == ResourceId(resource)
       IN  /\ ~IsProject(resource)
           /\ IsFolder(resource)
           /\ \E name_outcome \in FolderNameOutcomes,
                 parent_outcome \in FolderParentOutcomes,
                 parent_name_outcome \in FolderNameOutcomes :
                LET r == ResolveFolder(folder_cache, resource_id, name_outcome,
                                       parent_outcome, parent_name_outcome)
                IN  /\ folder_cache' = r.cache
                    /\ calls' = calls \o Tagged(r.issued, idx)
                    /\ Accumulate(DocRows(policy_doc, FOLDER, resource_id,
                                          r.resource_name, r.parent_name))
    /\ NextDoc
    /\ UNCHANGED Files

\* Lines 150-162
LoopDone == pc = "loop" /\ idx > Len(all_policies)
Report == <<CSV_HEADER>> \o final_rows
Program == <<all_policies, idx, final_rows, folder_cache, calls, row_doc>>

\* open(OUTPUT_CSV, 'w') raises IOError
OpenOutputFails ==
    /\ LoopDone
    /\ Exit("1")
    /\ UNCHANGED <<input_file, input_docs, output_file, Program>>

\* open(OUTPUT_CSV, 'w') creates or truncates the file
OpenOutput ==
    /\ LoopDone
    /\ output_file' = Opened(<<>>)
    /\ pc' = "writing"
    /\ UNCHANGED <<input_file, input_docs, exit_status, Program>>

\* writerow, writerows and the close of the with block succeed
WriteReport ==
    /\ pc = "writing"
    /\ output_file' = Opened(Report)
    /\ Exit("0")
    /\ UNCHANGED <<input_file, input_docs, Program>>

\* a write or the close raises IOError: some lines reached the file, not all
WriteReportFails ==
    /\ pc = "writing"
    /\ \E written \in 0..(Len(Report) - 1) :
         output_file' = Opened(SubSeq(Report, 1, written))
    /\ Exit("1")
    /\ UNCHANGED <<input_file, input_docs, Program>>

Next ==
    \/ InputMissing
    \/ InputExists
    \/ InputCorrupt
    \/ InputLoaded
    \/ SkipOtherResource
    \/ SkipSystemProject
    \/ ProcessProject
    \/ ProcessFolder
    \/ OpenOutputFails
    \/ OpenOutput
    \/ WriteReport
    \/ WriteReportFails

Spec == Init /\ [][Next]_vars

\* =================================================================== claims
\* The reference notions below are written from the specification's wording,
\* with the literal texts it names, and do not use the program's operators.

\* //cloudresourcemanager.<domain>/<kind>/<id>: the kind and the trailing id
RefSegments(policy_doc) ==
    Split(IF "resource" \in DOMAIN policy_doc THEN policy_doc.resource ELSE <<>>, "/")
RefWellFormed(policy_doc) ==
    LET seg == RefSegments(policy_doc)
    IN  /\ Len(seg) = 5
        /\ seg[1] = <<>> /\ seg[2] = <<>>
        /\ seg[3] = <<"cloudresourcemanager.googleapis.com">>
        /\ seg[5] # <<>>
RefId(policy_doc) == RefSegments(policy_doc)[5]
RefHasColon(text) == \E i \in 1..Len(text) : text[i] = ":"
RefIsProjectDoc(policy_doc) ==
    RefWellFormed(policy_doc) /\ RefSegments(policy_doc)[4] = <<"projects">>
RefIsFolderDoc(policy_doc) ==
    RefWellFormed(policy_doc) /\ RefSegments(policy_doc)[4] = <<"folders">>
RefIsSystemProjectDoc(policy_doc) ==
    RefIsProjectDoc(policy_doc) /\ RefHasColon(RefId(policy_doc))
RefReported(policy_doc) ==
    \/ RefIsProjectDoc(policy_doc) /\ ~RefHasColon(RefId(policy_doc))
    \/ RefIsFolderDoc(policy_doc)
RefType(policy_doc) ==
    IF RefIsProjectDoc(policy_doc) THEN <<"Project">> ELSE <<"Folder">>
RefOrganization(policy_doc) ==
    IF "organization" \in DOMAIN policy_doc
    THEN Tail(Tail(policy_doc.organization))
    ELSE <<"UNKNOWN">>

\* The (binding, member) pairs of a document, and their rank in listed order
RefBindings(policy_doc) ==
    IF "policy" \in DOMAIN policy_doc /\ "bindings" \in DOMAIN policy_doc.policy
    THEN policy_doc.policy.bindings ELSE <<>>
RefMembers(binding) ==
    IF "members" \in DOMAIN binding THEN binding.members ELSE <<>>
RefRole(binding) == IF "role" \in DOMAIN binding THEN binding.role ELSE <<>>
RefPairs(policy_doc) ==
    LET bs == RefBindings(policy_doc)
    IN  UNION { { <<b, m>> : m \in 1..Len(RefMembers(bs[b])) } : b \in 1..Len(bs) }
RefRank(policy_doc, pair) ==
    Cardinality({ q \in RefPairs(policy_doc) :
                    q[1] < pair[1] \/ (q[1] = pair[1] /\ q[2] < pair[2]) })

\* The listed order of the pairs: the (role, member) of the pair of each rank
RefListed(policy_doc) ==
    LET bs == RefBindings(policy_doc)
    IN  [k \in 1..Cardinality(RefPairs(policy_doc)) |->
           LET pair == CHOOSE q \in RefPairs(policy_doc) :
                          RefRank(policy_doc, q) = k - 1
           IN  <<RefRole(bs[pair[1]]), RefMembers(bs[pair[1]])[pair[2]]>>]

\* The reference reading of every document of the input domain
Reference ==
    [policy_doc \in PolicyDocs |->
       [isProject |-> RefIsProjectDoc(policy_doc),
        isFolder |-> RefIsFolderDoc(policy_doc),
        isSystemProject |-> RefIsSystemProjectDoc(policy_doc),
        reported |-> RefReported(policy_doc),
        type |-> RefType(policy_doc),
        id |-> IF RefWellFormed(policy_doc) THEN RefId(policy_doc) ELSE <<>>,
        segments |-> Len(RefSegments(policy_doc)),
        organization |-> RefOrganization(policy_doc),
        bindings |-> RefBindings(policy_doc),
        listed |-> RefListed(policy_doc)]]
Ref(d) == Reference[all_policies[d]]

\* History views
Processed == 1..(idx - 1)
RowsOf(d) == { i \in 1..Len(final_rows) : row_doc[i] = d }
RowsBefore(d) == { i \in 1..Len(final_rows) : row_doc[i] < d }
CallsOf(d, op) == { i \in 1..Len(calls) : calls[i].doc = d /\ calls[i].op = op }
NameLookups(folder_id) ==
    { i \in 1..Len(calls) :
        calls[i].op = "folders.describe.displayName" /\ calls[i].arg = folder_id }
FolderKey(folder_id) == <<"folders", "/">> \o folder_id
Succeeded(call) == call.result.returncode = 0

\* C1: within a run at most one display-name lookup is issued per folder
\* identifier; every cache entry comes from exactly one lookup and holds that
\* lookup's result (the name, or "<not found>" after a failure), so a resolve of
\* an identifier already in the cache issues no call and returns the cached value.
C1_OneLookupPerFolder ==
    /\ \A i, j \in 1..Len(calls) :
         ( /\ i # j
           /\ calls[i].op = "folders.describe.displayName"
           /\ calls[j].op = "folders.describe.displayName" )
         => calls[i].arg # calls[j].arg
    /\ \A i \in 1..Len(calls) :
         calls[i].op = "folders.describe.displayName" =>
            LET key == FolderKey(calls[i].arg)
            IN  /\ key \in DOMAIN folder_cache
                /\ folder_cache[key] =
                     IF Succeeded(calls[i]) THEN Strip(calls[i].result.stdout)
                                            ELSE <<"<not found>">>
    /\ \A key \in DOMAIN folder_cache :
         Cardinality(NameLookups(Tail(Tail(key)))) = 1

\* A project whose parent folder f1 could not be looked up, then the Folder
\* document of f1, which has rows: the second resolve issued no lookup.
C1_Witness ==
    /\ idx = 3
    /\ Ref(1).isProject
    /\ Ref(2).isFolder /\ Ref(2).id = <<"f1">>
    /\ \E i \in NameLookups(<<"f1">>) : calls[i].doc = 1 /\ ~Succeeded(calls[i])
    /\ RowsOf(2) # {}
    /\ \A i \in RowsOf(2) : final_rows[i][4] = <<"<not found>">>

PassesOver ==
    /\ final_rows' = final_rows
    /\ row_doc' = row_doc
    /\ calls' = calls
    /\ folder_cache' = folder_cache
    /\ idx' = idx + 1
    /\ pc' = "loop"
    /\ exit_status' = "running"

AtDocument == pc = "loop" /\ idx <= Len(all_policies)

\* C3: every accumulated row has resourceType "Project" or "Folder", and the
\* step for a document whose resource matches neither identifier pattern adds
\* no row, issues no lookup, leaves the cache unchanged and does not end the run.
C3_OnlyProjectsAndFolders ==
    /\ [](\A i \in 1..Len(final_rows) :
            final_rows[i][2] \in {<<"Project">>, <<"Folder">>})
    /\ [](\A d \in Processed :
            (~Ref(d).isProject /\ ~Ref(d).isFolder)
            => (RowsOf(d) = {} /\ \A i \in 1..Len(calls) : calls[i].doc # d))
    /\ [][ ( /\ AtDocument
             /\ ~Ref(idx).isProject
             /\ ~Ref(idx).isFolder ) => PassesOver ]_vars

\* After a Folder with rows and a cached name, a document with extra path
\* segments and bindings was passed over.
C3_Witness ==
    /\ idx = 3
    /\ Ref(1).isFolder
    /\ Ref(2).segments > 5
    /\ Ref(2).listed # <<>>
    /\ RowsOf(1) # {} /\ RowsOf(2) = {}
    /\ DOMAIN folder_cache # {}

\* C4: the step for a Project document whose trailing identifier contains a
\* colon adds no row, issues no lookup, leaves the cache unchanged and goes on
\* to the next document, whatever bindings the document carries.
C4_SystemProjectSkipped ==
    /\ [](\A d \in Processed :
            Ref(d).isSystemProject
            => (RowsOf(d) = {} /\ \A i \in 1..Len(calls) : calls[i].doc # d))
    /\ [][ (AtDocument /\ Ref(idx).isSystemProject)
           => PassesOver ]_vars

\* A system project with bindings was skipped and the Folder after it was
\* processed and has rows.
C4_Witness ==
    /\ idx = 3
    /\ Ref(1).isSystemProject
    /\ Ref(1).listed # <<>>
    /\ Ref(2).isFolder
    /\ RowsOf(1) = {} /\ RowsOf(2) # {}
    /\ \E i \in 1..Len(calls) : calls[i].doc = 2

\* C5: no lookup failure ends the run or loses a row: whatever the lookups
\* returned, every processed reported document has one row per (binding,
\* member) pair whose OrganizationID, ResourceType, ResourceID, Role and Member
\* are those the input alone determines; and the run reaches the writing of
\* the report only with every document processed.
C5_LookupFailuresKeepRows ==
    /\ \A d \in Processed :
         Ref(d).reported =>
           /\ Cardinality(RowsOf(d)) = Len(Ref(d).listed)
           /\ \A k \in 1..Len(Ref(d).listed) :
                LET row == final_rows[Cardinality(RowsBefore(d)) + k]
                IN  <<row[1], row[2], row[3], <<row[6], row[7]>>>> =
                      <<Ref(d).organization, Ref(d).type, Ref(d).id,
                        Ref(d).listed[k]>>
    /\ (input_file = "json" /\ pc \in {"writing", "exit"}) =>
         idx = Len(input_docs) + 1
    /\ (input_file = "json" /\ pc \in {"loop", "writing"}) => exit_status = "running"

\* A finished run in which the folder's name lookup and parent lookup and the
\* project's describe all failed, and both documents have their rows.
C5_Witness ==
    /\ exit_status = "0"
    /\ Len(all_policies) = 2
    /\ Ref(1).isFolder /\ Ref(2).isProject
    /\ \A i \in 1..Len(calls) : ~Succeeded(calls[i])
    /\ Len(calls) = 3
    /\ RowsOf(1) # {} /\ RowsOf(2) # {}

\* The output file neither created nor modified, and a file holding part
\* of a report: the header and fewer rows than were accumulated.
Untouched == ~output_file.opened
PartialOutput ==
    /\ output_file.opened
    /\ Len(output_file.lines) >= 1
    /\ Len(output_file.lines) < Len(final_rows) + 1
    /\ output_file.lines[1] =
         << <<"OrganizationID">>, <<"ResourceType">>, <<"ResourceID">>,
            <<"ResourceName">>, <<"Parent">>, <<"Role">>, <<"Member">> >>

\* C6: exit status 0 only if the input was read and the output written; a
\* missing or corrupt input ends the run with nonzero status before any lookup
\* and with the output file neither created nor modified; an unwritable output
\* ends it with nonzero status and no partial output left; the output file is
\* touched only after every document has been processed.
C6_ExitContract ==
    /\ exit_status = "0" =>
         /\ input_file = "json"
         /\ all_policies = input_docs
         /\ output_file.opened
         /\ Len(output_file.lines) = Len(final_rows) + 1
         /\ Tail(output_file.lines) = final_rows
    /\ (pc = "exit" /\ input_file # "json") =>
         (exit_status = "1" /\ calls = <<>> /\ Untouched)
    /\ (pc = "exit" /\ input_file = "json" /\ exit_status # "0") =>
         (exit_status = "1" /\ ~PartialOutput)
    /\ ~Untouched => (pc \in {"writing", "exit"} /\ idx = Len(input_docs) + 1)

\* What a lookup printed, read as gcloud prints it: one line, its values
\* separated by tabs.
RefLine(call) ==
    LET out == call.result.stdout
    IN  IF out # <<>> /\ out[Len(out)] = "\n" THEN SubSeq(out, 1, Len(out) - 1)
                                              ELSE out
RefFields(call) == Split(RefLine(call), "\t")
RefIsFolderPath(path) ==
    Len(path) >= 3 /\ path[1] = "folders" /\ path[2] = "/"

\* C7: the rows of a Folder document carry as ResourceName the resolver's value
\* for that folder; as Parent they carry "<Parent lookup failed>" when the
\* parent-path lookup failed, the resolver's value for the parent folder when
\* the path denotes a folder, and "<Organization>" otherwise.
C7_FolderParent ==
    \A d \in Processed :
      Ref(d).isFolder =>
        /\ CallsOf(d, "folders.describe.parent") # {}
        /\ \A c \in CallsOf(d, "folders.describe.parent"), i \in RowsOf(d) :
             LET row == final_rows[i]
                 own == FolderKey(Ref(d).id)
                 path == RefLine(calls[c])
             IN  /\ own \in DOMAIN folder_cache
                 /\ row[4] = folder_cache[own]
                 /\ IF ~Succeeded(calls[c])
                    THEN row[5] = <<"<Parent lookup failed>">>
                    ELSE IF RefIsFolderPath(path)
                         THEN /\ path \in DOMAIN folder_cache
                              /\ row[5] = folder_cache[path]
                         ELSE row[5] = <<"<Organization>">>

\* Folder f1 with both its lookups failed, then folder f2 whose parent path is
\* folders/f1: its rows carry f1's cached "<not found>" as Parent.
C7_Witness ==
    /\ idx = 3
    /\ Ref(1).isFolder /\ Ref(1).id = <<"f1">>
    /\ Ref(2).isFolder /\ Ref(2).id = <<"f2">>
    /\ RowsOf(1) # {} /\ RowsOf(2) # {}
    /\ \A i \in RowsOf(1) :
         /\ final_rows[i][4] = <<"<not found>">>
         /\ final_rows[i][5] = <<"<Parent lookup failed>">>
    /\ \A i \in RowsOf(2) :
         /\ final_rows[i][4] = <<"Team A">>
         /\ final_rows[i][5] = <<"<not found>">>

\* C8: the rows of a non-skipped Project document carry the reference result
\* of its describe call: after a failure or malformed output, "<project
\* details not found>" and an empty Parent, with no folder lookup issued; after
\* a success, the returned display name, and as Parent the resolver's value
\* for folders/<parentId> when the parent type is "folder" and "<Organization>"
\* for any other parent type.
C8_ProjectResult ==
    \A d \in Processed :
      (Ref(d).isProject /\ ~Ref(d).isSystemProject) =>
        /\ CallsOf(d, "projects.describe") # {}
        /\ \A c \in CallsOf(d, "projects.describe") :
             LET answer == RefFields(calls[c])
             IN  IF ~Succeeded(calls[c]) \/ Len(answer) # 3
                 THEN /\ CallsOf(d, "folders.describe.displayName") = {}
                      /\ \A i \in RowsOf(d) :
                           /\ final_rows[i][4] = <<"<project details not found>">>
                           /\ final_rows[i][5] = <<>>
                 ELSE \A i \in RowsOf(d) :
                        /\ final_rows[i][4] = answer[1]
                        /\ IF answer[2] = <<"folder">>
                           THEN /\ FolderKey(answer[3]) \in DOMAIN folder_cache
                                /\ final_rows[i][5] = folder_cache[FolderKey(answer[3])]
                           ELSE final_rows[i][5] = <<"<Organization>">>

\* The folder identifiers a row names, each with the name the row gives it:
\* the folder of a Folder row, the parent folder of a Folder row whose parent
\* path denotes a folder, the parent folder of a Project row whose details
\* were found with parent type "folder".
NamedBy(i) ==
    LET d == row_doc[i]
        row == final_rows[i]
    IN  IF Ref(d).isFolder
        THEN {<<FolderKey(Ref(d).id), row[4]>>}
             \cup { <<RefLine(calls[c]), row[5]>> :
                      c \in { c \in CallsOf(d, "folders.describe.parent") :
                                Succeeded(calls[c]) /\ RefIsFolderPath(RefLine(calls[c])) } }
        ELSE { <<FolderKey(RefFields(calls[c])[3]), row[5]>> :
                 c \in { c \in CallsOf(d, "projects.describe") :
                           /\ Succeeded(calls[c])
                           /\ row[4] # <<"<project details not found>">>
                           /\ Len(RefFields(calls[c])) = 3
                           /\ RefFields(calls[c])[2] = <<"folder">> } }
Named == UNION { NamedBy(i) : i \in 1..Len(final_rows) }

\* C9: the cache is empty when the run starts; no step removes an entry or
\* changes an entry's value; and all rows that name the same folder identifier
\* give it the same name, the one the cache holds.
C9_CacheOnlyGrows ==
    /\ [](pc \in {"check", "load"} => DOMAIN folder_cache = {})
    /\ [][ \A key \in DOMAIN folder_cache :
              key \in DOMAIN folder_cache' /\ folder_cache'[key] = folder_cache[key] ]_vars
    /\ [](\A n \in Named :
            n[1] \in DOMAIN folder_cache /\ folder_cache[n[1]] = n[2])

\* Folder f1, whose name lookup failed, is named by its own rows and, as
\* parent, by the rows of the project after it: both say "<not found>".
C9_Witness ==
    /\ idx = 3
    /\ Ref(1).isFolder /\ Ref(1).id = <<"f1">>
    /\ Ref(2).isProject
    /\ RowsOf(1) # {} /\ RowsOf(2) # {}
    /\ \A i \in RowsOf(1) : final_rows[i][4] = <<"<not found>">>
    /\ \A i \in RowsOf(2) :
         /\ final_rows[i][5] = <<"<not found>">>
         /\ <<FolderKey(<<"f1">>), <<"<not found>">>>> \in NamedBy(i)

\* C10: calls are issued in document order; each processed non-skipped
\* Project document has exactly one describeProject call (its first call) and
\* each Folder document exactly one parent-path lookup, for its own id,
\* whatever the result and whatever the bindings; other documents have no
\* call; so a folder has as many parent-path lookups as Folder documents
\* processed for it, and at most one display-name lookup.
C10_OneDescribePerDocument ==
    /\ \A i, j \in 1..Len(calls) : i < j => calls[i].doc <= calls[j].doc
    /\ \A i \in 1..Len(calls) : calls[i].doc \in Processed
    /\ \A d \in Processed :
         LET mine == { i \in 1..Len(calls) : calls[i].doc = d }
         IN  IF Ref(d).isProject /\ ~Ref(d).isSystemProject
             THEN /\ Cardinality(CallsOf(d, "projects.describe")) = 1
                  /\ CallsOf(d, "folders.describe.parent") = {}
                  /\ \A c \in CallsOf(d, "projects.describe") :
                       /\ calls[c].arg = Ref(d).id
                       /\ \A i \in mine : c <= i
             ELSE IF Ref(d).isFolder
             THEN /\ Cardinality(CallsOf(d, "folders.describe.parent")) = 1
                  /\ CallsOf(d, "projects.describe") = {}
                  /\ \A c \in CallsOf(d, "folders.describe.parent") :
                       calls[c].arg = Ref(d).id
             ELSE mine = {}
    /\ \A f \in { calls[i].arg : i \in 1..Len(calls) } :
         /\ Cardinality({ i \in 1..Len(calls) :
                            calls[i].op = "folders.describe.parent" /\ calls[i].arg = f })
              = Cardinality({ d \in Processed :
                                Ref(d).isFolder
                                /\ Ref(d).id = f })
         /\ Cardinality(NameLookups(f)) <= 1

\* Folder f1 in two documents without bindings: two parent-path lookups, the
\* first failed, and one display-name lookup.
C10_Witness ==
    /\ idx = 3
    /\ \A d \in {1, 2} :
         /\ Ref(d).isFolder /\ Ref(d).id = <<"f1">>
         /\ Ref(d).bindings = <<>>
    /\ Len(calls) = 3
    /\ calls[1].op = "folders.describe.displayName"
    /\ calls[2].op = "folders.describe.parent" /\ ~Succeeded(calls[2])
    /\ calls[3].op = "folders.describe.parent" /\ calls[3].doc = 2
    /\ final_rows = <<>>

=============================================================================
